---- MODULE Spec2Model ----
(***************************************************************************)
(* State-machine model of the rtl-pulse backend: the three device          *)
(* managers (RTL433Manager, AudioManager, SpectrumManager), the routers    *)
(* that arbitrate between them, the external processes they spawn and the  *)
(* background reader tasks.                                                *)
(*                                                                         *)
(* The program runs on one asyncio event loop: a coroutine runs without    *)
(* interruption from one await to the next.  Every action below is one     *)
(* such uninterrupted segment of a request handler or background task, or  *)
(* one event of the environment (an external process exiting).             *)
(***************************************************************************)
EXTENDS Integers, FiniteSets, Sequences, Bags, TLC

\* Bounds of the model.
MaxProcs == 2          \* external processes spawned in one behaviour
MaxCalls == 2          \* request handlers in flight at the same time
MaxLines == 3          \* lines the decoder writes in one session
MaxCallbacks == 2      \* callbacks registered with the decoder
MaxFrames == 12        \* frames the spectrum engine emits in one session
MaxSockets == 1        \* spectrum WebSocket connections
MaxSubs == 2           \* callbacks that subscribe to the spectrum frames
MaxAveraging == 3      \* largest averaging count requested
MaxSlack == 2          \* how far FFT size requests go beyond the accepted range
MaxConns == 2          \* WebSocket connections of the readings channel
MaxTune == 2           \* center frequencies go up to MaxTune * 100 MHz
MaxRequest == 60       \* largest averaging passed to configure, in absolute value
FftMin == 256          \* Query(..., ge=256, ...) of the FFT size
FftMax == 4096         \* Query(..., le=4096) of the FFT size
QueueSize == 10        \* asyncio.Queue(maxsize=10) of a spectrum connection
MaxPoints == 256       \* len(freq_mhz) // 256 in the downsampling of a frame

Pids  == 1..MaxProcs

VARIABLES
    procSt,     \* pid -> "unborn" | "alive" | "term" | "killed" | "exited"
    procOwner,  \* pid -> "none" | "rtl" | "audio" | "spec": the manager that spawned it
    taskSt,     \* pid -> "none" | "running" | "cancelling" | "done": the task created with pid
    taskSrc,    \* pid -> process whose stdout the spectrum task is reading
    rtl,        \* RTL433Manager: [process, running, task]
    audio,      \* AudioManager: [process, config]
    lock,       \* AudioManager._lock: TRUE while a handler holds it
    spec,       \* SpectrumManager: [process, running, task, sample_rate]
    calls,      \* bag of [op, pc, p, cfg]: the request handlers suspended at an await
    ev,         \* the last step: [a, ret, res]
    rd,         \* the decoder's reader task: [st, pc, n, kind, stamp, i, calls, failed, got]
    hub,        \* spectrum frames on their way out: [live, frame, clients, ws, queue, sent]
    strm,       \* an audio chunk sequence and its consumer: [st, born, src, r, raised]
    bc,         \* a broadcast to subscribers whose callbacks may suspend and raise
    eng,        \* the spectrum engine loop and the FFT part of SpectrumConfig
    conn        \* ConnectionManager: its sockets, active_connections and a broadcast

vars == <<procSt, procOwner, taskSt, taskSrc, rtl, audio, lock, spec, calls, ev, rd, hub, strm, bc,
          eng, conn>>

mvars == <<procSt, procOwner, taskSt, taskSrc, rtl, audio, lock, spec, calls, ev>>

----------------------------------------------------------------------------
\* Values

NoCfg == [frequency |-> "none", modulation |-> "none", sample_rate |-> 0,
          output_rate |-> 0, gain |-> 0, squelch |-> 0, ppm |-> 0]

\* Request inputs drawn by the routers.
Frequencies == {"101.5M", "433.92M"}
ModNames    == {"wbfm", "am"}
Gains       == {40}
SampleRates == {0, 2048000}

\* start_audio: sample rate chosen from the modulation.
SampleRateFor(mod) == IF mod = "wbfm" THEN 200000 ELSE 48000

\* start_audio: the AudioConfig built from the request.
StartConfig(freq, mod, gain) ==
    [frequency |-> freq, modulation |-> mod, sample_rate |-> SampleRateFor(mod),
     output_rate |-> 48000, gain |-> gain, squelch |-> 0, ppm |-> 0]

\* tune_frequency: new frequency, modulation when given, the rest carried over.
TuneConfig(current, freq, mod) ==
    [current EXCEPT !.frequency = freq,
                    !.modulation = IF mod = "none" THEN current.modulation ELSE mod]

\* A handler suspended at pc, with the process or task p and the AudioConfig
\* cfg it holds in its locals.
Rec(op, pc, p, cfg) == [op |-> op, pc |-> pc, p |-> p, cfg |-> cfg]

\* The handler that is only now being entered.
NoCall == Rec("none", "new", 0, NoCfg)

\* What the last step was: a is the route entered ("step" for a resumed
\* handler), ret the manager method that returned in it and how, res the
\* answer of the handler when it finished in this step.
Ev(a, ret, res) == [a |-> a, ret |-> ret, res |-> res]

\* Handler c suspends as n / handler c finishes.
Suspend(c, n) ==
    calls' = IF c = NoCall THEN calls (+) SetToBag({n})
                           ELSE (calls (-) SetToBag({c})) (+) SetToBag({n})
Finish(c) ==
    calls' = IF c = NoCall THEN calls ELSE calls (-) SetToBag({c})

InFlight == BagToSet(calls)

----------------------------------------------------------------------------
\* Processes

\* returncode is None / poll() is None.
Alive(p) == procSt[p] \in {"alive", "term", "killed"}

CanSpawn == \E p \in Pids : procSt[p] = "unborn"
FreshPid == CHOOSE p \in Pids : procSt[p] = "unborn" /\ \A q \in Pids : procSt[q] = "unborn" => p <= q

\* terminate(): SIGTERM to a live process, nothing for one that is gone.
Terminated(st, p) == [st EXCEPT ![p] = IF @ = "alive" THEN "term" ELSE @]

\* kill(): SIGKILL to a live process.
Killed(st, p) == [st EXCEPT ![p] = IF @ \in {"alive", "term"} THEN "killed" ELSE @]

\* asyncio's Process.terminate()/kill() raise ProcessLookupError once the
\* process has exited and its transport is closed; before the transport is
\* closed they do nothing.  Which one holds for an exited process depends on
\* whether the loop has already seen the pipes close.
MayRaiseLookup(p) == procSt[p] = "exited"

\* The is_running properties.
RtlIsRunning   == rtl.process # 0 /\ Alive(rtl.process)
AudioIsRunning == audio.process # 0 /\ Alive(audio.process)
SpecIsRunning  == spec.running

ManagersInit ==
    /\ procSt    = [p \in Pids |-> "unborn"]
    /\ procOwner = [p \in Pids |-> "none"]
    /\ taskSt    = [p \in Pids |-> "none"]
    /\ taskSrc   = [p \in Pids |-> 0]
    /\ rtl   = [process |-> 0, running |-> FALSE, task |-> 0]
    /\ audio = [process |-> 0, config |-> NoCfg]
    /\ lock  = FALSE
    /\ spec  = [process |-> 0, running |-> FALSE, task |-> 0, sample_rate |-> 2048000]
    /\ calls = EmptyBag
    /\ ev    = Ev("init", "none", "none")

----------------------------------------------------------------------------
\* RTL433Manager (rtl_manager.py) and its routes (routers/system.py)

\* RTL433Manager.stop returns: restart goes on to its sleep, stop_rtl433 answers.
RtlStopReturn(c, op, a) ==
    IF op = "restart"
    THEN /\ Suspend(c, Rec(op, "restart_sleep", 0, NoCfg))
         /\ ev' = Ev(a, "rtl.stop:ok", "none")
    ELSE /\ Finish(c)
         /\ ev' = Ev(a, "rtl.stop:ok", "ok")

\* RTL433Manager.stop, lines 102-113 up to the first await; r is the manager
\* after lines 92-100.
RtlStopProcess(c, op, a, r) ==
    /\ rtl' = r
    /\ IF r.process = 0
       THEN /\ procSt' = procSt
            /\ RtlStopReturn(c, op, a)
       ELSE \/ /\ procSt' = Terminated(procSt, r.process)
               /\ Suspend(c, Rec(op, "rtl_stop_wait", r.process, NoCfg))
               /\ ev' = Ev(a, "none", "none")
            \/ /\ MayRaiseLookup(r.process)
               /\ procSt' = procSt
               /\ Finish(c)
               /\ ev' = Ev(a, "rtl.stop:raise", "raised")

\* RTL433Manager.stop from its first line to its first await.
RtlStopEnter(c, op) ==
    LET r == [rtl EXCEPT !.running = FALSE] IN
    IF rtl.task # 0 /\ taskSt[rtl.task] # "done"
    THEN /\ taskSt' = [taskSt EXCEPT ![rtl.task] = "cancelling"]
         /\ rtl' = r
         /\ procSt' = procSt
         /\ Suspend(c, Rec(op, "rtl_stop_task", rtl.task, NoCfg))
         /\ ev' = Ev(op, "none", "none")
    ELSE /\ taskSt' = taskSt
         /\ RtlStopProcess(c, op, op, [r EXCEPT !.task = 0])

\* RTL433Manager.start from its first line to the await of the spawn.
RtlStartEnter(c, op, a) ==
    /\ UNCHANGED <<procSt, procOwner, taskSt, taskSrc, rtl, audio, lock, spec>>
    /\ IF RtlIsRunning
       THEN /\ Finish(c)
            /\ ev' = Ev(a, "rtl.start:already", "ok")
       ELSE \/ /\ Finish(c)          \* the binary does not exist
               /\ ev' = Ev(a, "rtl.start:false", "error")
            \/ /\ Suspend(c, Rec(op, "rtl_spawn", 0, NoCfg))
               /\ ev' = Ev(a, "none", "none")

\* POST /system/rtl433/start
StartRtl433 ==
    IF RtlIsRunning
    THEN /\ ev' = Ev("start_rtl433", "none", "already")
         /\ UNCHANGED <<procSt, procOwner, taskSt, taskSrc, rtl, audio, lock, spec, calls>>
    ELSE RtlStartEnter(NoCall, "start_rtl433", "start_rtl433")

\* create_subprocess_exec returns (or raises) in RTL433Manager.start.
RtlSpawn(c) ==
    /\ c.pc = "rtl_spawn"
    /\ Finish(c)
    /\ \/ /\ CanSpawn
          /\ LET p == FreshPid IN
             /\ procSt' = [procSt EXCEPT ![p] = "alive"]
             /\ procOwner' = [procOwner EXCEPT ![p] = "rtl"]
             /\ taskSt' = [taskSt EXCEPT ![p] = "running"]
             /\ rtl' = [process |-> p, running |-> TRUE, task |-> p]
          /\ ev' = Ev("step", "rtl.start:true", "ok")
       \/ /\ ev' = Ev("step", "rtl.start:false", "error")
          /\ UNCHANGED <<procSt, procOwner, taskSt, rtl>>
    /\ UNCHANGED <<taskSrc, audio, lock, spec>>

\* POST /system/rtl433/stop
StopRtl433 ==
    /\ UNCHANGED <<procOwner, taskSrc, audio, lock, spec>>
    /\ IF ~RtlIsRunning
       THEN /\ ev' = Ev("stop_rtl433", "none", "not_running")
            /\ UNCHANGED <<procSt, taskSt, rtl, calls>>
       ELSE RtlStopEnter(NoCall, "stop_rtl433")

\* POST /system/rtl433/restart: RTL433Manager.restart starts with stop().
RestartRtl433 ==
    /\ UNCHANGED <<procOwner, taskSrc, audio, lock, spec>>
    /\ RtlStopEnter(NoCall, "restart")

\* RTL433Manager.stop: the cancelled reader task has finished.
RtlStopTaskDone(c) ==
    /\ c.pc = "rtl_stop_task"
    /\ taskSt[c.p] = "done"
    /\ UNCHANGED <<procOwner, taskSt, taskSrc, audio, lock, spec>>
    /\ RtlStopProcess(c, c.op, "step", [rtl EXCEPT !.task = 0])

\* RTL433Manager.stop: the process exited within the 5 s of wait_for.
RtlStopWaitDone(c) ==
    /\ c.pc = "rtl_stop_wait"
    /\ procSt[c.p] = "exited"
    /\ rtl' = [rtl EXCEPT !.process = 0]
    /\ RtlStopReturn(c, c.op, "step")
    /\ UNCHANGED <<procSt, procOwner, taskSt, taskSrc, audio, lock, spec>>

\* RTL433Manager.stop: wait_for timed out; kill and wait for self.process.
RtlStopTimeout(c) ==
    /\ c.pc = "rtl_stop_wait"
    /\ procSt[c.p] # "exited"
    /\ UNCHANGED <<procOwner, taskSt, taskSrc, rtl, audio, lock, spec>>
    /\ IF rtl.process = 0
       THEN /\ procSt' = procSt          \* None has no kill()
            /\ Finish(c)
            /\ ev' = Ev("step", "rtl.stop:raise", "raised")
       ELSE \/ /\ procSt' = Killed(procSt, rtl.process)
               /\ Suspend(c, Rec(c.op, "rtl_stop_kill_wait", rtl.process, NoCfg))
               /\ ev' = Ev("step", "rtl.stop:kill", "none")
            \/ /\ MayRaiseLookup(rtl.process)
               /\ procSt' = procSt
               /\ Finish(c)
               /\ ev' = Ev("step", "rtl.stop:raise", "raised")

\* RTL433Manager.stop: the killed process has exited.
RtlStopKillWaitDone(c) ==
    /\ c.pc = "rtl_stop_kill_wait"
    /\ procSt[c.p] = "exited"
    /\ rtl' = [rtl EXCEPT !.process = 0]
    /\ RtlStopReturn(c, c.op, "step")
    /\ UNCHANGED <<procSt, procOwner, taskSt, taskSrc, audio, lock, spec>>

\* RTL433Manager.restart: the 1 s sleep is over, start() runs.
RestartSleepDone(c) ==
    /\ c.pc = "restart_sleep"
    /\ RtlStartEnter(c, "restart", "step")

\* _read_output: one line arrives; dispatched unless running was cleared.
RtlTaskLine(t) ==
    /\ procOwner[t] = "rtl"
    /\ taskSt[t] = "running"
    /\ procSt[t] # "exited"
    /\ IF rtl.running
       THEN /\ ev' = Ev("emit_rtl", "none", "none")
            /\ taskSt' = taskSt
       ELSE /\ ev' = Ev("task", "none", "none")
            /\ taskSt' = [taskSt EXCEPT ![t] = "done"]
    /\ UNCHANGED <<procSt, procOwner, taskSrc, rtl, audio, lock, spec, calls>>

\* _read_output: the stream of the exited process closes.
RtlTaskEOF(t) ==
    /\ procOwner[t] = "rtl"
    /\ taskSt[t] = "running"
    /\ procSt[t] = "exited"
    /\ taskSt' = [taskSt EXCEPT ![t] = "done"]
    /\ ev' = Ev("task", "none", "none")
    /\ UNCHANGED <<procSt, procOwner, taskSrc, rtl, audio, lock, spec, calls>>

\* A reader task that swallows CancelledError and goes back to its read.
TaskCancelIgnored(t) ==
    /\ taskSt[t] = "cancelling"
    /\ taskSt' = taskSt
    /\ spec' = spec
    /\ ev' = Ev("task", "none", "ignored")
    /\ UNCHANGED <<procSt, procOwner, taskSrc, rtl, audio, lock, calls>>

\* A cancelled task receives CancelledError at its await and ends; the
\* spectrum task's finally clause clears _running.
TaskCancelled(t) ==
    /\ taskSt[t] = "cancelling"
    /\ taskSt' = [taskSt EXCEPT ![t] = "done"]
    /\ spec' = IF procOwner[t] = "spec" THEN [spec EXCEPT !.running = FALSE] ELSE spec
    /\ ev' = Ev("task", "none", "none")
    /\ UNCHANGED <<procSt, procOwner, taskSrc, rtl, audio, lock, calls>>

\* An external process exits: on its own, on SIGTERM or on SIGKILL.
ProcExit(p) ==
    /\ Alive(p)
    /\ procSt' = [procSt EXCEPT ![p] = "exited"]
    /\ ev' = Ev("exit", "none", "none")
    /\ UNCHANGED <<procOwner, taskSt, taskSrc, rtl, audio, lock, spec, calls>>

----------------------------------------------------------------------------
\* AudioManager (audio_manager.py) and its routes (routers/audio.py)

ClearedAudio == [process |-> 0, config |-> NoCfg]

\* AudioManager.start inside `async with self._lock`, up to the sleep.
AudioStartLocked(c, op, a, cfg) ==
    /\ UNCHANGED <<taskSt, taskSrc, rtl, spec>>
    /\ IF AudioIsRunning
       THEN \* await self.stop(): stop() waits for the lock its own caller holds
            /\ lock' = TRUE
            /\ Suspend(c, Rec(op, "audio_start_stop", 0, cfg))
            /\ ev' = Ev(a, "none", "none")
            /\ UNCHANGED <<procSt, procOwner, audio>>
       ELSE \/ /\ CanSpawn
               /\ LET p == FreshPid IN
                  /\ procSt' = [procSt EXCEPT ![p] = "alive"]
                  /\ procOwner' = [procOwner EXCEPT ![p] = "audio"]
                  /\ audio' = [process |-> p, config |-> cfg]
               /\ lock' = TRUE
               /\ Suspend(c, Rec(op, "audio_settle", 0, cfg))
               /\ ev' = Ev(a, "none", "none")
            \/ /\ lock' = FALSE             \* FileNotFoundError
               /\ Finish(c)
               /\ ev' = Ev(a, "audio.start:notfound", "error")
               /\ UNCHANGED <<procSt, procOwner, audio>>
            \/ /\ lock' = FALSE             \* any other exception of Popen
               /\ audio' = ClearedAudio
               /\ Finish(c)
               /\ ev' = Ev(a, "audio.start:raise", "error")
               /\ UNCHANGED <<procSt, procOwner>>

\* AudioManager.start reaches `async with self._lock`.
AudioStartAcquire(op, cfg) ==
    IF lock
    THEN /\ Suspend(NoCall, Rec(op, "audio_start_lock", 0, cfg))
         /\ ev' = Ev(op, "none", "none")
         /\ UNCHANGED <<procSt, procOwner, taskSt, taskSrc, rtl, audio, lock, spec>>
    ELSE AudioStartLocked(NoCall, op, op, cfg)

\* start_audio without its check of the audio session itself.
StartAudioUnchecked ==
    IF RtlIsRunning
    THEN /\ ev' = Ev("start_audio", "none", "conflict")
         /\ UNCHANGED <<procSt, procOwner, taskSt, taskSrc, rtl, audio, lock, spec, calls>>
    ELSE \E freq \in Frequencies, mod \in ModNames, gain \in Gains :
             AudioStartAcquire("start_audio", StartConfig(freq, mod, gain))

\* POST /audio/start
StartAudio ==
    IF RtlIsRunning \/ AudioIsRunning
    THEN /\ ev' = Ev("start_audio", "none", "conflict")
         /\ UNCHANGED <<procSt, procOwner, taskSt, taskSrc, rtl, audio, lock, spec, calls>>
    ELSE \E freq \in Frequencies, mod \in ModNames, gain \in Gains :
             AudioStartAcquire("start_audio", StartConfig(freq, mod, gain))

\* POST /audio/tune
TuneFrequency ==
    IF ~AudioIsRunning
    THEN /\ ev' = Ev("tune", "none", "not_running")
         /\ UNCHANGED <<procSt, procOwner, taskSt, taskSrc, rtl, audio, lock, spec, calls>>
    ELSE IF audio.config = NoCfg
    THEN /\ ev' = Ev("tune", "none", "error")
         /\ UNCHANGED <<procSt, procOwner, taskSt, taskSrc, rtl, audio, lock, spec, calls>>
    ELSE \E freq \in Frequencies, mod \in ModNames \cup {"none"} :
             AudioStartAcquire("tune", TuneConfig(audio.config, freq, mod))

\* AudioManager.start: the lock became free.
AudioStartLockAcquired(c) ==
    /\ c.pc = "audio_start_lock"
    /\ ~lock
    /\ AudioStartLocked(c, c.op, "step", c.cfg)

\* AudioManager.start after the sleep, with an except clause that keeps the
\* process handle and the configuration.
AudioSettleKeeps(c) ==
    /\ c.pc = "audio_settle"
    /\ lock' = FALSE
    /\ Finish(c)
    /\ audio' = audio
    /\ ev' = IF procSt[audio.process] = "exited"
             THEN Ev("step", "audio.start:exited", "error")
             ELSE Ev("step", "audio.start:true", "ok")
    /\ UNCHANGED <<procSt, procOwner, taskSt, taskSrc, rtl, spec>>

\* AudioManager.start after the 0.2 s sleep: poll, then leave the lock.
AudioSettle(c) ==
    /\ c.pc = "audio_settle"
    /\ lock' = FALSE
    /\ Finish(c)
    /\ IF procSt[audio.process] = "exited"
       THEN /\ audio' = ClearedAudio
            /\ ev' = Ev("step", "audio.start:exited", "error")
       ELSE /\ audio' = audio
            /\ ev' = Ev("step", "audio.start:true", "ok")
    /\ UNCHANGED <<procSt, procOwner, taskSt, taskSrc, rtl, spec>>

\* AudioManager.stop that forgets the configuration.
AudioStopKeepsConfig(c, a) ==
    /\ IF audio.process # 0
       THEN /\ procSt' = [procSt EXCEPT ![audio.process] = "exited"]
            /\ audio' = [audio EXCEPT !.process = 0]
       ELSE UNCHANGED <<procSt, audio>>
    /\ Finish(c)
    /\ ev' = Ev(a, "audio.stop:ok", "ok")
    /\ UNCHANGED <<procOwner, taskSt, taskSrc, rtl, lock, spec>>

\* AudioManager.stop inside the lock: terminate, blocking wait of 2 s, kill
\* and blocking wait; nothing else runs on the loop meanwhile.
AudioStopLocked(c, a) ==
    /\ IF audio.process # 0
       THEN /\ procSt' = [procSt EXCEPT ![audio.process] = "exited"]
            /\ audio' = ClearedAudio
       ELSE UNCHANGED <<procSt, audio>>
    /\ Finish(c)
    /\ ev' = Ev(a, "audio.stop:ok", "ok")
    /\ UNCHANGED <<procOwner, taskSt, taskSrc, rtl, lock, spec>>

\* POST /audio/stop
StopAudio ==
    IF lock
    THEN /\ Suspend(NoCall, Rec("stop_audio", "audio_stop_lock", 0, NoCfg))
         /\ ev' = Ev("stop_audio", "none", "none")
         /\ UNCHANGED <<procSt, procOwner, taskSt, taskSrc, rtl, audio, lock, spec>>
    ELSE AudioStopLocked(NoCall, "stop_audio")

\* AudioManager.stop: the lock became free.
AudioStopLockAcquired(c) ==
    /\ c.pc = "audio_stop_lock"
    /\ ~lock
    /\ AudioStopLocked(c, "step")

----------------------------------------------------------------------------
\* SpectrumManager (spectrum_manager.py) and its routes (routers/spectrum.py)

\* POST /spectrum/live/start: checks, configure(), then SpectrumManager.start
\* up to the await of the spawn.
StartSpectrum ==
    /\ UNCHANGED <<procSt, procOwner, taskSt, taskSrc, rtl, audio, lock>>
    /\ IF RtlIsRunning \/ SpecIsRunning
       THEN /\ ev' = Ev("start_spectrum", "none", "conflict")
            /\ UNCHANGED <<spec, calls>>
       ELSE \E sr \in SampleRates :
               /\ spec' = [spec EXCEPT !.sample_rate = sr]
               /\ Suspend(NoCall, Rec("start_spectrum", "spec_spawn", 0, NoCfg))
               /\ ev' = Ev("start_spectrum", "none", "none")

\* POST /spectrum/live/configure: SpectrumManager.configure; the sample rate
\* string is parsed to an integer and stored as it is.
ConfigureSpectrum ==
    /\ \E sr \in SampleRates : spec' = [spec EXCEPT !.sample_rate = sr]
    /\ ev' = Ev("configure_spectrum", "none", "ok")
    /\ UNCHANGED <<procSt, procOwner, taskSt, taskSrc, rtl, audio, lock, calls>>

\* SpectrumManager.start with _running set before the spawn is attempted.
SpecSpawnMarksFirst(c) ==
    /\ c.pc = "spec_spawn"
    /\ Finish(c)
    /\ \/ /\ CanSpawn
          /\ LET p == FreshPid IN
             /\ procSt' = [procSt EXCEPT ![p] = "alive"]
             /\ procOwner' = [procOwner EXCEPT ![p] = "spec"]
             /\ taskSt' = [taskSt EXCEPT ![p] = "running"]
             /\ taskSrc' = [taskSrc EXCEPT ![p] = p]
             /\ spec' = [spec EXCEPT !.process = p, !.running = TRUE, !.task = p]
          /\ ev' = Ev("step", "spec.start:true", "ok")
       \/ /\ ev' = Ev("step", "spec.start:false", "error")
          /\ spec' = [spec EXCEPT !.running = TRUE]
          /\ UNCHANGED <<procSt, procOwner, taskSt, taskSrc>>
    /\ UNCHANGED <<rtl, audio, lock>>

\* create_subprocess_exec returns (or raises) in SpectrumManager.start.
SpecSpawn(c) ==
    /\ c.pc = "spec_spawn"
    /\ Finish(c)
    /\ \/ /\ CanSpawn
          /\ LET p == FreshPid IN
             /\ procSt' = [procSt EXCEPT ![p] = "alive"]
             /\ procOwner' = [procOwner EXCEPT ![p] = "spec"]
             /\ taskSt' = [taskSt EXCEPT ![p] = "running"]
             /\ taskSrc' = [taskSrc EXCEPT ![p] = p]
             /\ spec' = [spec EXCEPT !.process = p, !.running = TRUE, !.task = p]
          /\ ev' = Ev("step", "spec.start:true", "ok")
       \/ /\ ev' = Ev("step", "spec.start:false", "error")
          /\ UNCHANGED <<procSt, procOwner, taskSt, taskSrc, spec>>
    /\ UNCHANGED <<rtl, audio, lock>>

\* SpectrumManager.stop, lines 134-142 up to the await; s is the manager
\* after lines 124-132.
SpecStopProcess(c, a, s) ==
    IF s.process = 0
    THEN /\ spec' = s
         /\ procSt' = procSt
         /\ Finish(c)
         /\ ev' = Ev(a, "spec.stop:ok", "ok")
    ELSE \/ /\ spec' = s
            /\ procSt' = Terminated(procSt, s.process)
            /\ Suspend(c, Rec("stop_spectrum", "spec_stop_wait", s.process, NoCfg))
            /\ ev' = Ev(a, "none", "none")
         \/ /\ MayRaiseLookup(s.process)
            /\ spec' = s
            /\ procSt' = procSt
            /\ Finish(c)
            /\ ev' = Ev(a, "spec.stop:raise", "raised")

\* POST /spectrum/live/stop: SpectrumManager.stop to its first await.
StopSpectrum ==
    /\ UNCHANGED <<procOwner, taskSrc, rtl, audio, lock>>
    /\ IF ~spec.running
       THEN /\ ev' = Ev("stop_spectrum", "spec.stop:early", "ok")
            /\ UNCHANGED <<procSt, taskSt, spec, calls>>
       ELSE LET s == [spec EXCEPT !.running = FALSE] IN
            IF spec.task # 0 /\ taskSt[spec.task] # "done"
            THEN /\ taskSt' = [taskSt EXCEPT ![spec.task] = "cancelling"]
                 /\ spec' = s
                 /\ procSt' = procSt
                 /\ Suspend(NoCall, Rec("stop_spectrum", "spec_stop_task", spec.task, NoCfg))
                 /\ ev' = Ev("stop_spectrum", "none", "none")
            ELSE /\ taskSt' = taskSt
                 /\ SpecStopProcess(NoCall, "stop_spectrum", [s EXCEPT !.task = 0])

\* SpectrumManager.stop: the cancelled engine task has finished.
SpecStopTaskDone(c) ==
    /\ c.pc = "spec_stop_task"
    /\ taskSt[c.p] = "done"
    /\ UNCHANGED <<procOwner, taskSt, taskSrc, rtl, audio, lock>>
    /\ SpecStopProcess(c, "step", [spec EXCEPT !.task = 0])

\* SpectrumManager.stop: the process exited within the 2 s of wait_for.
SpecStopWaitDone(c) ==
    /\ c.pc = "spec_stop_wait"
    /\ procSt[c.p] = "exited"
    /\ spec' = [spec EXCEPT !.process = 0]
    /\ Finish(c)
    /\ ev' = Ev("step", "spec.stop:ok", "ok")
    /\ UNCHANGED <<procSt, procOwner, taskSt, taskSrc, rtl, audio, lock>>

\* SpectrumManager.stop: wait_for timed out; kill self._process, no wait.
SpecStopTimeout(c) ==
    /\ c.pc = "spec_stop_wait"
    /\ procSt[c.p] # "exited"
    /\ Finish(c)
    /\ UNCHANGED <<procOwner, taskSt, taskSrc, rtl, audio, lock>>
    /\ IF spec.process = 0
       THEN /\ UNCHANGED <<procSt, spec>>   \* None has no kill()
            /\ ev' = Ev("step", "spec.stop:raise", "raised")
       ELSE \/ /\ procSt' = Killed(procSt, spec.process)
               /\ spec' = [spec EXCEPT !.process = 0]
               /\ ev' = Ev("step", "spec.stop:kill", "ok")
            \/ /\ MayRaiseLookup(spec.process)
               /\ UNCHANGED <<procSt, spec>>
               /\ ev' = Ev("step", "spec.stop:raise", "raised")

\* The engine task leaves its loop with no finally clause: _running stays.
SpecTaskEndsKeepsFlag(t) ==
    /\ taskSt' = [taskSt EXCEPT ![t] = "done"]
    /\ spec' = spec
    /\ taskSrc' = taskSrc

\* The engine task leaves its loop: the finally clause clears _running.
SpecTaskEnds(t) ==
    /\ taskSt' = [taskSt EXCEPT ![t] = "done"]
    /\ spec' = [spec EXCEPT !.running = FALSE]
    /\ taskSrc' = taskSrc

\* _process_samples: a read returns data and the samples are processed.  When
\* the accumulator is full (full = TRUE) the frequency axis is computed with
\* 1 / sample_rate, which raises ZeroDivisionError for a sample rate of 0, and
\* the frame is broadcast.  Then the loop condition is tested and the next
\* read is issued on self._process.stdout (None has no stdout).
SpecTaskData(t) ==
    /\ procOwner[t] = "spec"
    /\ taskSt[t] = "running"
    /\ procSt[taskSrc[t]] # "exited"
    /\ \E full \in BOOLEAN :
          IF full /\ spec.sample_rate = 0
          THEN /\ ev' = Ev("task", "none", "none")
               /\ SpecTaskEnds(t)
          ELSE /\ ev' = Ev(IF full THEN "emit_spec" ELSE "task", "none", "none")
               /\ IF ~spec.running \/ spec.process = 0
                  THEN SpecTaskEnds(t)
                  ELSE /\ taskSrc' = [taskSrc EXCEPT ![t] = spec.process]
                       /\ UNCHANGED <<taskSt, spec>>
    /\ UNCHANGED <<procSt, procOwner, rtl, audio, lock, calls>>

\* _process_samples: a read returns no bytes, the process has exited.
SpecTaskEOF(t) ==
    /\ procOwner[t] = "spec"
    /\ taskSt[t] = "running"
    /\ procSt[taskSrc[t]] = "exited"
    /\ SpecTaskEnds(t)
    /\ ev' = Ev("task", "none", "none")
    /\ UNCHANGED <<procSt, procOwner, rtl, audio, lock, calls>>

\* _process_samples: StreamReader.read raises RuntimeError when another
\* coroutine is already waiting on the same stream.
SpecTaskReadError(t) ==
    /\ procOwner[t] = "spec"
    /\ taskSt[t] = "running"
    /\ \E u \in Pids : u # t /\ taskSt[u] = "running" /\ procOwner[u] = "spec" /\ taskSrc[u] = taskSrc[t]
    /\ SpecTaskEnds(t)
    /\ ev' = Ev("task", "none", "none")
    /\ UNCHANGED <<procSt, procOwner, rtl, audio, lock, calls>>

----------------------------------------------------------------------------
\* The decoder's reader loop (RTL433Manager._read_output), line by line

Callbacks == 1..MaxCallbacks

\* What the decoder can write on one line.
LineKinds == {
    "object_time_iso",      \* JSON object, "time" is an ISO timestamp string
    "object_time_text",     \* JSON object, "time" is a string that is no timestamp
    "object_time_number",   \* JSON object, "time" is a number, null, list or object
    "object_no_time",       \* JSON object without "time"
    "json_other",           \* valid JSON that is no object: number, string, list, null
    "not_json",             \* text that json.loads rejects
    "not_utf8",             \* bytes that are not UTF-8
    "blank",                \* empty or white space only
    "over_limit" }          \* longer than the 64 KiB limit of the StreamReader

ValidJson == {"object_time_iso", "object_time_text", "object_time_number",
              "object_no_time", "json_other"}

\* `async for line in self.process.stdout`: readline raises ValueError for a
\* line longer than the stream's limit; the exception leaves the loop.
Yielded(kind) == kind # "over_limit"

\* line.decode("utf-8"), strip, the test for an empty line, json.loads.
Loads(kind) == kind \in ValidJson

\* Lines 141-150: "ok" with the stamp the event gets, or "error" when an
\* exception escapes.  `"time" in data` and `data["time"] = ...` raise
\* TypeError for JSON that is no object; data["time"].replace raises
\* AttributeError for a time that is no string, which the inner except clause
\* (ValueError, TypeError) does not catch; fromisoformat raises ValueError.
Stamp(kind) ==
    CASE kind = "json_other"         -> [r |-> "error", stamp |-> "none"]
      [] kind = "object_no_time"     -> [r |-> "ok", stamp |-> "now"]
      [] kind = "object_time_number" -> [r |-> "error", stamp |-> "none"]
      [] kind = "object_time_text"   -> [r |-> "ok", stamp |-> "now"]
      [] kind = "object_time_iso"    -> [r |-> "ok", stamp |-> "parsed"]

\* rd.got[cb] is the number of the last line whose event callback cb was
\* called with, 0 for none.

\* The event of the line reaches the callback loop.
Dispatched(kind) == Yielded(kind) /\ Loads(kind) /\ Stamp(kind).r = "ok"

NoInvocations == [cb \in Callbacks |-> 0]

RdIdle == [st |-> "idle", pc |-> "read", n |-> 0, kind |-> "none", stamp |-> "none",
           i |-> 0, calls |-> NoInvocations, failed |-> {},
           got |-> [cb \in Callbacks |-> 0]]

\* The reader task has been created and waits for the first line.
RdStarted == [RdIdle EXCEPT !.st = "reading"]

\* One line arrives and is taken through decoding, parsing and stamping.
ReadLine ==
    /\ rd.st = "reading" /\ rd.pc = "read" /\ rd.n < MaxLines
    /\ \E kind \in LineKinds :
          rd' = [st     |-> IF Yielded(kind) THEN "reading" ELSE "failed",
                 pc     |-> IF Dispatched(kind) THEN "dispatch" ELSE "read",
                 n      |-> rd.n + 1,
                 kind   |-> kind,
                 stamp  |-> IF Dispatched(kind) THEN Stamp(kind).stamp ELSE "none",
                 i      |-> IF Dispatched(kind) THEN 1 ELSE 0,
                 calls  |-> NoInvocations,
                 failed |-> {},
                 got    |-> rd.got]
    /\ UNCHANGED <<mvars, hub, strm, bc, eng, conn>>

\* Invoke without the try/except around the call: the exception of a callback
\* reaches the handler of the line, which goes on to the next line.
InvokeUnguarded ==
    /\ rd.st = "reading" /\ rd.pc = "dispatch"
    /\ \E raises \in BOOLEAN :
          rd' = [rd EXCEPT !.calls[rd.i] = @ + 1,
                           !.got[rd.i] = rd.n,
                           !.failed = IF raises THEN @ \cup {rd.i} ELSE @,
                           !.i = IF raises \/ rd.i = MaxCallbacks THEN 0 ELSE rd.i + 1,
                           !.pc = IF raises \/ rd.i = MaxCallbacks THEN "read" ELSE "dispatch"]
    /\ UNCHANGED <<mvars, hub, strm, bc, eng, conn>>

\* The next callback is invoked with the event; it returns or raises, and the
\* except clause around the call goes on to the next callback.
Invoke ==
    /\ rd.st = "reading" /\ rd.pc = "dispatch"
    /\ \E raises \in BOOLEAN :
          rd' = [rd EXCEPT !.calls[rd.i] = @ + 1,
                           !.got[rd.i] = rd.n,
                           !.failed = IF raises THEN @ \cup {rd.i} ELSE @,
                           !.i = IF rd.i = MaxCallbacks THEN 0 ELSE rd.i + 1,
                           !.pc = IF rd.i = MaxCallbacks THEN "read" ELSE "dispatch"]
    /\ UNCHANGED <<mvars, hub, strm, bc, eng, conn>>

\* The decoder's output stream closes: the loop ends.
ReadEOF ==
    /\ rd.st = "reading" /\ rd.pc = "read"
    /\ rd' = [rd EXCEPT !.st = "ended"]
    /\ UNCHANGED <<mvars, hub, strm, bc, eng, conn>>

----------------------------------------------------------------------------
\* Spectrum frames: SpectrumManager._broadcast and the WebSocket connections

Sockets == 1..MaxSockets

\* Nobody is connected and no engine task emits frames.  ws[s] is "new",
\* "open" or "closed"; queue[s] is the connection's asyncio.Queue; sent[s] is
\* the number of the last frame written to the socket, 0 for none.
HubIdle == [live    |-> FALSE,
            frame   |-> 0,
            clients |-> << >>,
            ws      |-> [s \in Sockets |-> "new"],
            queue   |-> [s \in Sockets |-> << >>],
            sent    |-> [s \in Sockets |-> 0]]

\* The engine task of a spectrum session has been created.
HubLive == [HubIdle EXCEPT !.live = TRUE]

\* add_client: append unless already registered.
AddClient(clients, s) ==
    IF \E k \in 1..Len(clients) : clients[k] = s THEN clients ELSE Append(clients, s)

\* remove_client: drop the registration if there is one.
RemoveClient(clients, s) == SelectSeq(clients, LAMBDA c : c # s)

\* send_to_client that leaves a full queue as it is.
EnqueueIfRoom(q, f) == IF Len(q) >= QueueSize THEN q ELSE Append(q, f)

\* send_to_client that puts the new frame in front of the waiting ones.
EnqueueInFront(q, f) == IF Len(q) >= QueueSize THEN <<f>> \o Tail(q) ELSE <<f>> \o q

\* send_to_client: when the queue is full the oldest frame is taken out, then
\* the new one is put at the end.
Enqueue(q, f) == IF Len(q) >= QueueSize THEN Append(Tail(q), f) ELSE Append(q, f)

\* The connections whose callback is registered.
Registered == {hub.clients[k] : k \in 1..Len(hub.clients)}

\* A client connects: the connection gets its queue and registers its callback.
WsConnect(s) ==
    /\ hub.ws[s] = "new"
    /\ hub' = [hub EXCEPT !.ws[s] = "open", !.clients = AddClient(@, s)]
    /\ UNCHANGED <<mvars, rd, strm, bc, eng, conn>>

\* The engine emits the next frame: _broadcast calls every registered callback
\* in turn, and none of them yields.
Broadcast ==
    /\ hub.live /\ hub.frame < MaxFrames
    /\ LET f == hub.frame + 1
           registered == {hub.clients[k] : k \in 1..Len(hub.clients)}
       IN  hub' = [hub EXCEPT !.frame = f,
                              !.queue = [s \in Sockets |->
                                  IF s \in registered THEN Enqueue(hub.queue[s], f)
                                                      ELSE hub.queue[s]]]
    /\ UNCHANGED <<mvars, rd, strm, bc, eng, conn>>

\* The sender loop of a connection takes the frame at the head of its queue
\* and writes it to the socket.
WsSend(s) ==
    /\ hub.ws[s] = "open" /\ hub.queue[s] # << >>
    /\ hub' = [hub EXCEPT !.queue[s] = Tail(@), !.sent[s] = Head(hub.queue[s])]
    /\ UNCHANGED <<mvars, rd, strm, bc, eng, conn>>

\* The client goes away: the finally clause removes the registration.
WsDisconnect(s) ==
    /\ hub.ws[s] = "open"
    /\ hub' = [hub EXCEPT !.ws[s] = "closed", !.clients = RemoveClient(@, s)]
    /\ UNCHANGED <<mvars, rd, strm, bc, eng, conn>>

----------------------------------------------------------------------------
\* The audio chunk sequence (AudioManager.stream_audio) and GET /audio/stream

\* No sequence has been asked for.  st is "none", "open" (obtained, not yet
\* iterated), "reading" (a read is pending in the executor), "yielded" (the
\* consumer holds a chunk), or "ended"; born is the process of the session in
\* which the sequence was obtained, src the process whose stdout the last read
\* was issued on, r the outcome of the last read, raised whether an exception
\* reached the consumer.
NoStream == [st |-> "none", born |-> 0, src |-> 0, r |-> "none", raised |-> FALSE]

\* GET /audio/stream: 400 unless a session is running, else the response is
\* built around a new generator.
StreamAudio ==
    /\ strm.st = "none"
    /\ AudioIsRunning
    /\ strm' = [NoStream EXCEPT !.st = "open", !.born = audio.process]
    /\ UNCHANGED <<mvars, rd, hub, bc, eng, conn>>

\* The consumer asks for the next chunk: the generator runs to its next
\* await.  is_running and self.process are those of the manager at this moment.
StreamNextChunk ==
    /\ strm.st \in {"open", "yielded"}
    /\ strm' = IF AudioIsRunning
               THEN [strm EXCEPT !.st = "reading", !.src = audio.process]
               ELSE [strm EXCEPT !.st = "ended"]
    /\ UNCHANGED <<mvars, rd, hub, bc, eng, conn>>

\* stream_audio without the except clause around the read.
StreamReadUnguarded ==
    /\ strm.st = "reading"
    /\ \/ /\ Alive(strm.src)
          /\ strm' = [strm EXCEPT !.st = "yielded", !.r = "data"]
       \/ /\ procSt[strm.src] = "exited"
          /\ strm' = [strm EXCEPT !.st = "ended", !.r = "eof"]
       \/ strm' = [strm EXCEPT !.st = "ended", !.r = "error", !.raised = TRUE]
    /\ UNCHANGED <<mvars, rd, hub, bc, eng, conn>>

\* The read in the executor completes: with bytes, with no bytes because the
\* pipe is closed, or with an exception.
StreamRead ==
    /\ strm.st = "reading"
    /\ \/ /\ Alive(strm.src)
          /\ strm' = [strm EXCEPT !.st = "yielded", !.r = "data"]
       \/ /\ procSt[strm.src] = "exited"
          /\ strm' = [strm EXCEPT !.st = "ended", !.r = "eof"]
       \/ strm' = [strm EXCEPT !.st = "ended", !.r = "error"]
    /\ UNCHANGED <<mvars, rd, hub, bc, eng, conn>>

----------------------------------------------------------------------------
\* SpectrumManager._broadcast with subscribers of any kind: a callback is
\* awaited, so it may suspend, and it may raise

Subs == 1..MaxSubs

\* The engine loop between two frames, nobody subscribed.  clients is
\* self._clients; st is "idle", "calling" (a callback is being awaited) or
\* "failed" (an exception left _broadcast and ended the engine loop); snap is
\* what is left of the copy `self._clients[:]`, cur the callback awaited; got
\* counts the calls of each callback with the frame in flight, stayed holds
\* the subscribers registered since the broadcast began, dead those removed
\* because their callback raised.
BcIdle == [clients |-> << >>, st |-> "idle", snap |-> << >>, cur |-> 0,
           got |-> [s \in Subs |-> 0], stayed |-> {}, dead |-> {}]

\* The members of a list.
Members(list) == {list[k] : k \in 1..Len(list)}

\* add_client, called by anybody between two awaits.
AddSub(s) ==
    /\ bc.st # "failed"
    /\ s \notin Members(bc.clients)
    /\ bc' = [bc EXCEPT !.clients = AddClient(@, s), !.dead = @ \ {s}]
    /\ UNCHANGED <<mvars, rd, hub, strm, eng, conn>>

\* remove_client, called by anybody between two awaits.
RemoveSub(s) ==
    /\ bc.st # "failed"
    /\ s \in Members(bc.clients)
    /\ bc' = [bc EXCEPT !.clients = RemoveClient(@, s), !.stayed = @ \ {s}]
    /\ UNCHANGED <<mvars, rd, hub, strm, eng, conn>>

\* The for loop of _broadcast goes on: the next callback of the copy is
\* called, or the broadcast is over.
BcGoOn(b) ==
    IF b.snap = << >>
    THEN [b EXCEPT !.st = "idle", !.cur = 0]
    ELSE [b EXCEPT !.st = "calling", !.cur = Head(b.snap), !.snap = Tail(b.snap),
                   !.got[Head(b.snap)] = @ + 1]

\* The engine has a frame: _broadcast copies the list and calls the first
\* callback.
BcStart ==
    /\ bc.st = "idle"
    /\ bc' = BcGoOn([bc EXCEPT !.snap = bc.clients,
                               !.got = [s \in Subs |-> 0],
                               !.stayed = Members(bc.clients)])
    /\ UNCHANGED <<mvars, rd, hub, strm, eng, conn>>

\* The awaited callback returns.
BcReturn ==
    /\ bc.st = "calling"
    /\ bc' = BcGoOn(bc)
    /\ UNCHANGED <<mvars, rd, hub, strm, eng, conn>>

\* The awaited callback raises: the except clause removes it from
\* self._clients.  list.remove raises ValueError for a callback that is no
\* longer in the list; that exception leaves _broadcast and is caught by
\* _process_samples outside its loop.
BcRaise ==
    /\ bc.st = "calling"
    /\ bc' = IF bc.cur \in Members(bc.clients)
             THEN BcGoOn([bc EXCEPT !.clients = RemoveClient(@, bc.cur),
                                    !.stayed = @ \ {bc.cur},
                                    !.dead = @ \cup {bc.cur}])
             ELSE [bc EXCEPT !.st = "failed", !.cur = 0, !.snap = << >>]
    /\ UNCHANGED <<mvars, rd, hub, strm, eng, conn>>

----------------------------------------------------------------------------
\* The spectrum engine loop (SpectrumManager._process_samples) and the FFT
\* size and averaging of SpectrumConfig (SpectrumManager.configure).  In
\* EngRead the sample rate is positive, so the axis of a frame can be
\* computed; BuildFrame computes the axis for any sample rate, and a sample
\* rate of 0 is also the case of SpecTaskData.

\* 2 ** k.
RECURSIVE Pow2(_)
Pow2(k) == IF k = 0 THEN 1 ELSE 2 * Pow2(k - 1)

\* int(np.log2(n)) for n >= 1: the number of times n can be halved.
RECURSIVE Log2Int(_)
Log2Int(n) == IF n < 2 THEN 0 ELSE 1 + Log2Int(n \div 2)

\* configure with a size that is taken over as it is.
FftSizeAsGiven(n) == n

\* configure with a size that is rounded up.
FftSizeUp(n) == IF Pow2(Log2Int(n)) = n THEN n ELSE 2 * Pow2(Log2Int(n))

\* configure, line 75: 2 ** int(np.log2(fft_size)).
FftSizeFor(n) == Pow2(Log2Int(n))

\* configure with an averaging count that is taken over as it is.
AveragingAsGiven(a) == a

\* configure, line 79: max(1, averaging).
AveragingFor(a) == IF a < 1 THEN 1 ELSE a

\* SpectrumConfig() with no session.  st is "idle", "running" or "ended";
\* need is samples_needed of the running task, acc the length of
\* fft_accumulator, held the bytes of earlier reads kept for the next one, last
\* what the last read led to, req the FFT size of the last configure request
\* (0 for none; the averaging for a request made by ConfigureAveraging) and
\* cfg what became of it, steady whether averaging has been left alone since
\* the task began.
EngIdle == [st |-> "idle", fft_size |-> 1024, averaging |-> 4, need |-> 0, acc |-> 0,
            held |-> 0, last |-> "none", req |-> 0, cfg |-> "none", steady |-> TRUE]

\* POST /spectrum/live/configure with FFT size n and averaging a (0 when the
\* parameter is not given): FastAPI answers 422 for a value outside the
\* Query bounds, otherwise SpectrumManager.configure runs.
ConfigureLive(n, a) ==
    /\ eng' = IF n # 0 /\ (n < FftMin \/ n > FftMax)
              THEN [eng EXCEPT !.req = n, !.cfg = "rejected"]
              ELSE [eng EXCEPT !.req = n, !.cfg = "applied",
                               !.fft_size = IF n = 0 THEN @ ELSE FftSizeFor(n),
                               !.averaging = IF a = 0 THEN @ ELSE AveragingFor(a),
                               !.steady = @ /\ (a = 0 \/ AveragingFor(a) = eng.averaging)]
    /\ UNCHANGED <<mvars, rd, hub, strm, bc, conn>>

\* SpectrumManager.configure(averaging=a) for any integer a, with no other
\* parameter given; req records a.
ConfigureAveraging(a) ==
    /\ eng' = [eng EXCEPT !.req = a, !.cfg = "applied", !.averaging = AveragingFor(a),
                          !.steady = @ /\ AveragingFor(a) = eng.averaging]
    /\ UNCHANGED <<mvars, rd, hub, strm, bc, conn>>

\* The engine task starts: samples_needed is computed once, the accumulator
\* is empty.
EngStart ==
    /\ eng.st # "running"
    /\ eng' = [eng EXCEPT !.st = "running", !.need = 2 * eng.fft_size, !.acc = 0,
                          !.held = 0, !.last = "none", !.steady = TRUE]
    /\ UNCHANGED <<mvars, rd, hub, strm, bc, conn>>

\* A partial read whose bytes are kept and put in front of the next read.
DiscardedKeepsBytes(e, k) == [e EXCEPT !.last = "partial", !.held = (@ + k) % e.need]

\* Lines 161-162: a read shorter than samples_needed is dropped.
Discarded(e, k) == [e EXCEPT !.last = "partial"]

\* An accumulator that is emitted but not cleared.
AccumulatedKeeps(e) ==
    IF e.acc + 1 >= e.averaging
    THEN [e EXCEPT !.acc = e.averaging - 1, !.last = "frame"]
    ELSE [e EXCEPT !.acc = @ + 1, !.last = "vector"]

\* Lines 164-216: the power vector of a full read is appended; when the
\* accumulator holds `averaging` vectors their mean is broadcast as one frame
\* and the accumulator is cleared.
Accumulated(e) ==
    IF e.acc + 1 >= e.averaging
    THEN [e EXCEPT !.acc = 0, !.last = "frame"]
    ELSE [e EXCEPT !.acc = @ + 1, !.last = "vector"]

\* Line 197: step = max(1, len(freq_mhz) // 256).
DownsampleStep(n) == IF n \div MaxPoints < 1 THEN 1 ELSE n \div MaxPoints

\* The length of a[::k] for a of length n.
SlicedLen(n, k) == (n + k - 1) \div k

\* Lines 191-198: the axis has config.fft_size points when the frame is
\* built and is sliced with the step computed from its own length.
FreqPoints(e) == SlicedLen(e.fft_size, DownsampleStep(e.fft_size))

\* Lines 166-199: every power vector has samples_needed / 2 points and their
\* mean is sliced with the step computed from the axis.
PowerPoints(e) == SlicedLen(e.need \div 2, DownsampleStep(e.fft_size))

\* np.fft.fftfreq(n, d) without its factor 1 / (n * d): the bin numbers
\* 0, 1, ..., (n - 1) // 2, -(n // 2), ..., -1.
FftFreq(n) == [k \in 1..n |-> IF k - 1 < (n - 1) \div 2 + 1 THEN k - 1 ELSE k - 1 - n]

\* np.fft.fftshift(a): a rolled by len(a) // 2 places.
FftShift(a) ==
    LET n == Len(a) IN [k \in 1..n |-> a[((k - 1 + n - n \div 2) % n) + 1]]

\* a[::k].
Sliced(a, k) == [i \in 1..SlicedLen(Len(a), k) |-> a[(i - 1) * k + 1]]

\* Lines 191-194 for a sample rate other than 0: the factor of fftfreq is
\* 1 / (n * (1 / sample_rate)) = sample_rate / n, and the center frequency is
\* added.  Rates and frequencies are in kHz and every point is kept as n
\* times its value, which leaves the order of the points as it is.
FreqAxis(n, sr, c) ==
    LET shifted == FftShift(FftFreq(n)) IN [k \in 1..n |-> c * n + shifted[k] * sr]

\* The engine at the moment a frame is due, with the fields of SpectrumConfig
\* the axis is computed from (in kHz), the axis (freq) and what the frame
\* carries of it (frequencies).
AxisDue(n, sr, c) ==
    [EngIdle EXCEPT !.st = "running", !.fft_size = n, !.need = 2 * n, !.averaging = 1]
        @@ [sample_rate |-> sr, center_freq |-> c, freq |-> << >>, frequencies |-> << >>]

\* Lines 185-199 and 220-223: the frame is built; 1 / sample_rate raises
\* ZeroDivisionError for a sample rate of 0 and the loop ends.
BuildFrame ==
    /\ eng.st = "running" /\ eng.last # "frame"
    /\ eng' = IF eng.sample_rate = 0
              THEN [eng EXCEPT !.st = "ended", !.last = "raised"]
              ELSE LET axis == FreqAxis(eng.fft_size, eng.sample_rate, eng.center_freq) IN
                   [eng EXCEPT !.last = "frame", !.freq = axis,
                               !.frequencies = Sliced(axis, DownsampleStep(Len(axis)))]
    /\ UNCHANGED <<mvars, rd, hub, strm, bc, conn>>

\* The lengths a read of up to samples_needed bytes can have.
ReadLengths == {0, 1, eng.need - 1, eng.need}

\* One read of the loop returns k bytes.
EngRead(k) ==
    /\ eng.st = "running"
    /\ eng' = IF k = 0 THEN [eng EXCEPT !.st = "ended", !.last = "empty"]
              ELSE IF k + eng.held < eng.need THEN Discarded(eng, k)
              ELSE Accumulated(eng)
    /\ UNCHANGED <<mvars, rd, hub, strm, bc, conn>>

----------------------------------------------------------------------------
\* ConnectionManager (websocket.py): the sockets of the readings channel.
\* Its lock is held only over the append or the remove, never over an await,
\* so it is free whenever a coroutine asks for it.

Conns == 1..MaxConns

\* ws is the state of each socket ("new", "open", "closed"), active is
\* active_connections.  Of the broadcast in progress or last finished: st is
\* "idle", "sending" or "done", i the position of the list iterator, cur the
\* connection whose send is awaited, tries the sends attempted per connection,
\* failed the list `disconnected`, whole the connections that have been in
\* active_connections ever since the broadcast began.
ConnIdle == [ws |-> [w \in Conns |-> "new"], active |-> << >>, st |-> "idle", i |-> 0,
             cur |-> 0, tries |-> [w \in Conns |-> 0], failed |-> << >>, whole |-> {}]

\* The elements of a list.
Listed(list) == {list[k] : k \in 1..Len(list)}

\* disconnect, lines 32-34: the connection is removed if it is in the list.
Disconnected(list, w) == SelectSeq(list, LAMBDA x : x # w)

\* broadcast, lines 55-64: the iterator of the for loop over the live list
\* yields the element at its position, if there is one, and the send is
\* awaited; otherwise the loop is over, every connection in `disconnected` is
\* removed and broadcast returns.
ConnLoop(c) ==
    IF c.i < Len(c.active)
    THEN [c EXCEPT !.st = "sending", !.cur = c.active[c.i + 1], !.i = @ + 1]
    ELSE [c EXCEPT !.st = "done", !.cur = 0,
                   !.active = SelectSeq(@, LAMBDA x : x \notin Listed(c.failed))]

\* handle_websocket, line 117: connect accepts the socket and appends it.
ConnConnect(w) ==
    /\ conn.ws[w] = "new"
    /\ conn' = [conn EXCEPT !.ws[w] = "open", !.active = Append(@, w)]
    /\ UNCHANGED <<mvars, rd, hub, strm, bc, eng>>

\* handle_websocket, lines 148-153: the client went away; disconnect.
ConnDisconnect(w) ==
    /\ conn.ws[w] = "open"
    /\ conn' = [conn EXCEPT !.ws[w] = "closed", !.active = Disconnected(@, w),
                            !.whole = @ \ {w}]
    /\ UNCHANGED <<mvars, rd, hub, strm, bc, eng>>

\* broadcast is called with at least one connection, up to its first await
\* (with none it returns at line 48 and changes nothing).
ConnBroadcast ==
    /\ conn.st # "sending"
    /\ conn.active # << >>
    /\ conn' = ConnLoop([conn EXCEPT !.i = 0, !.tries = [w \in Conns |-> 0],
                                     !.failed = << >>, !.whole = Listed(conn.active)])
    /\ UNCHANGED <<mvars, rd, hub, strm, bc, eng>>

\* The awaited send_text returns (ok) or raises, and the loop goes on.
ConnSendReturns(ok) ==
    /\ conn.st = "sending"
    /\ conn' = ConnLoop([conn EXCEPT !.tries[conn.cur] = @ + 1,
                                     !.failed = IF ok THEN @ ELSE Append(@, conn.cur)])
    /\ UNCHANGED <<mvars, rd, hub, strm, bc, eng>>

----------------------------------------------------------------------------
\* Specifications

Room(n) == BagCardinality(calls) < n

\* A step of the managers: the line-by-line and frame-by-frame state is left alone.
M(A) == A /\ UNCHANGED <<rd, hub, strm, bc, eng, conn>>

Init ==
    ManagersInit /\ rd = RdIdle /\ hub = HubIdle /\ strm = NoStream /\ bc = BcIdle /\ conn = ConnIdle /\ eng = EngIdle

\* The whole arbiter, one request at a time.  With a single request in flight
\* no handler ever finds AudioManager._lock taken and no two engine tasks
\* read one stream, so the steps that wait for the lock and the read error of
\* a shared stream are left to the specifications with overlapping requests.
Next ==
    \/ Room(1) /\ M(StartRtl433)
    \/ Room(1) /\ M(StopRtl433)
    \/ Room(1) /\ M(RestartRtl433)
    \/ Room(1) /\ M(StartAudio)
    \/ Room(1) /\ M(TuneFrequency)
    \/ Room(1) /\ M(StopAudio)
    \/ Room(1) /\ M(StartSpectrum)
    \/ Room(1) /\ M(StopSpectrum)
    \/ Room(1) /\ M(ConfigureSpectrum)
    \/ \E c \in InFlight : M(RtlSpawn(c))
    \/ \E c \in InFlight : M(RtlStopTaskDone(c))
    \/ \E c \in InFlight : M(RtlStopWaitDone(c))
    \/ \E c \in InFlight : M(RtlStopTimeout(c))
    \/ \E c \in InFlight : M(RtlStopKillWaitDone(c))
    \/ \E c \in InFlight : M(RestartSleepDone(c))
    \/ \E c \in InFlight : M(AudioSettle(c))
    \/ \E c \in InFlight : M(SpecSpawn(c))
    \/ \E c \in InFlight : M(SpecStopTaskDone(c))
    \/ \E c \in InFlight : M(SpecStopWaitDone(c))
    \/ \E c \in InFlight : M(SpecStopTimeout(c))
    \/ \E t \in Pids : M(RtlTaskLine(t))
    \/ \E t \in Pids : M(RtlTaskEOF(t))
    \/ \E t \in Pids : M(SpecTaskData(t))
    \/ \E t \in Pids : M(SpecTaskEOF(t))
    \/ \E t \in Pids : M(TaskCancelled(t))
    \/ \E t \in Pids : M(ProcExit(t))

Spec == Init /\ [][Next]_vars

\* The decoder routes alone, with overlapping requests.
RtlNext ==
    \/ Room(MaxCalls) /\ M(StartRtl433)
    \/ Room(MaxCalls) /\ M(StopRtl433)
    \/ Room(MaxCalls) /\ M(RestartRtl433)
    \/ \E c \in InFlight : M(RtlSpawn(c))
    \/ \E c \in InFlight : M(RtlStopTaskDone(c))
    \/ \E c \in InFlight : M(RtlStopWaitDone(c))
    \/ \E c \in InFlight : M(RtlStopTimeout(c))
    \/ \E c \in InFlight : M(RtlStopKillWaitDone(c))
    \/ \E c \in InFlight : M(RestartSleepDone(c))
    \/ \E t \in Pids : M(RtlTaskLine(t))
    \/ \E t \in Pids : M(RtlTaskEOF(t))
    \/ \E t \in Pids : M(TaskCancelled(t))
    \/ \E t \in Pids : M(ProcExit(t))

RtlSpec == Init /\ [][RtlNext]_vars

\* The same with the event loop's scheduling: a task whose await has
\* completed (cancellation delivered, end of stream seen) is run.
RtlFairSpec ==
    /\ RtlSpec
    /\ \A t \in Pids : WF_vars(M(TaskCancelled(t))) /\ WF_vars(M(RtlTaskEOF(t)))

\* The spectrum routes alone, with overlapping requests.
SpectrumNext ==
    \/ Room(MaxCalls) /\ M(StartSpectrum)
    \/ Room(MaxCalls) /\ M(StopSpectrum)
    \/ Room(MaxCalls) /\ M(ConfigureSpectrum)
    \/ \E c \in InFlight : M(SpecSpawn(c))
    \/ \E c \in InFlight : M(SpecStopTaskDone(c))
    \/ \E c \in InFlight : M(SpecStopWaitDone(c))
    \/ \E c \in InFlight : M(SpecStopTimeout(c))
    \/ \E t \in Pids : M(SpecTaskData(t))
    \/ \E t \in Pids : M(SpecTaskEOF(t))
    \/ \E t \in Pids : M(SpecTaskReadError(t))
    \/ \E t \in Pids : M(TaskCancelled(t))
    \/ \E t \in Pids : M(ProcExit(t))

SpectrumSpec == Init /\ [][SpectrumNext]_vars

\* The event loop resumes a task whose read has reached the end of the
\* stream and delivers the cancellation of a cancelled task.
SpectrumFairSpec ==
    /\ SpectrumSpec
    /\ \A t \in Pids : WF_vars(M(SpecTaskEOF(t))) /\ WF_vars(M(TaskCancelled(t)))

\* The audio routes alone, with overlapping requests.
AudioNext ==
    \/ Room(MaxCalls) /\ M(StartAudio)
    \/ Room(MaxCalls) /\ M(TuneFrequency)
    \/ Room(MaxCalls) /\ M(StopAudio)
    \/ \E c \in InFlight : M(AudioStartLockAcquired(c))
    \/ \E c \in InFlight : M(AudioSettle(c))
    \/ \E c \in InFlight : M(AudioStopLockAcquired(c))
    \/ \E t \in Pids : M(ProcExit(t))

AudioSpec == Init /\ [][AudioNext]_vars

\* The event loop wakes a handler when its sleep is over, and asyncio.Lock
\* hands a released lock to its waiters in the order they arrived.
AudioFairSpec ==
    /\ AudioSpec
    /\ WF_vars(\E c \in InFlight : M(AudioSettle(c)))
    /\ SF_vars(\E c \in InFlight : M(AudioStartLockAcquired(c)))
    /\ SF_vars(\E c \in InFlight : M(AudioStopLockAcquired(c)))

\* The audio routes, one request at a time, with a consumer of the chunk
\* sequence.
StreamNext ==
    \/ Room(1) /\ M(StartAudio)
    \/ Room(1) /\ M(TuneFrequency)
    \/ Room(1) /\ M(StopAudio)
    \/ \E c \in InFlight : M(AudioSettle(c))
    \/ \E t \in Pids : M(ProcExit(t))
    \/ StreamAudio
    \/ StreamNextChunk
    \/ StreamRead

StreamSpec == Init /\ [][StreamNext]_vars

\* Broadcasts of the spectrum engine while subscribers come and go.
BroadcastNext ==
    \/ \E s \in Subs : AddSub(s)
    \/ \E s \in Subs : RemoveSub(s)
    \/ BcStart
    \/ BcReturn
    \/ BcRaise

BroadcastSpec == Init /\ [][BroadcastNext]_vars

\* The FFT size and averaging requests of the engine's sessions.
FftChoices == {0, FftMin, 1000, FftMax}
AveragingChoices == 0..MaxAveraging

\* The engine loop with configuration requests at any moment.
EngineNext ==
    \/ \E n \in FftChoices, a \in AveragingChoices : ConfigureLive(n, a)
    \/ EngStart
    \/ \E k \in ReadLengths : EngRead(k)

EngineSpec == Init /\ [][EngineNext]_vars

\* Every FFT size request from below the accepted range to above it.
FftRequests == (FftMin - MaxSlack)..(FftMax + MaxSlack)

\* A first configure request of any size, followed by requests at the edges.
FftInit ==
    /\ ManagersInit
    /\ rd = RdIdle /\ hub = HubIdle /\ strm = NoStream /\ bc = BcIdle /\ conn = ConnIdle
    /\ \E n \in FftRequests : eng = [EngIdle EXCEPT !.req = n, !.cfg = "pending"]

FftNext ==
    \/ eng.cfg = "pending" /\ ConfigureLive(eng.req, 0)
    \/ eng.cfg # "pending" /\
           \E n \in {0, 1, FftMin - 1, FftMin, 1000, FftMax, FftMax + 1, 2 * FftMax} :
               ConfigureLive(n, 0)

FftSpec == FftInit /\ [][FftNext]_vars

\* Every averaging count from -MaxRequest to MaxRequest.
AveragingRequests == (0 - MaxRequest)..MaxRequest

\* A first configure call with any averaging count, followed by calls at the
\* edges of what the routes accept.
AveragingInit ==
    /\ ManagersInit
    /\ rd = RdIdle /\ hub = HubIdle /\ strm = NoStream /\ bc = BcIdle /\ conn = ConnIdle
    /\ \E a \in AveragingRequests : eng = [EngIdle EXCEPT !.req = a, !.cfg = "pending"]

AveragingNext ==
    \/ eng.cfg = "pending" /\ ConfigureAveraging(eng.req)
    \/ eng.cfg # "pending" /\ \E a \in {0 - 1, 0, 1, 2, 16, 17} : ConfigureAveraging(a)

AveragingSpec == AveragingInit /\ [][AveragingNext]_vars

\* The FFT sizes configure can leave, the sample rates the routes pass on
\* (any integer, in kHz here) and the center frequencies.
FftSizes == {n \in FftMin..FftMax : FftSizeFor(n) = n}
SampleRateInputs == {0 - 2048, 0 - 1000, 0 - 1, 0, 1, 1000, 2048}
CenterFreqs == {k * 100000 : k \in 0..MaxTune}

\* A frame is due under any configuration the routes can set.
AxisInit ==
    /\ ManagersInit
    /\ rd = RdIdle /\ hub = HubIdle /\ strm = NoStream /\ bc = BcIdle /\ conn = ConnIdle
    /\ \E n \in FftSizes, sr \in SampleRateInputs, c \in CenterFreqs : eng = AxisDue(n, sr, c)

AxisNext == BuildFrame

AxisSpec == AxisInit /\ [][AxisNext]_vars

\* Broadcasts of readings while sockets connect and go away.
ConnNext ==
    \/ \E w \in Conns : ConnConnect(w)
    \/ \E w \in Conns : ConnDisconnect(w)
    \/ ConnBroadcast
    \/ \E ok \in BOOLEAN : ConnSendReturns(ok)

ConnSpec == Init /\ [][ConnNext]_vars

\* The reader loop of one decoder session, from its creation on.
ReaderInit ==
    /\ ManagersInit
    /\ rd = RdStarted /\ hub = HubIdle /\ strm = NoStream /\ bc = BcIdle /\ conn = ConnIdle /\ eng = EngIdle

ReaderNext == ReadLine \/ Invoke \/ ReadEOF

ReaderSpec == ReaderInit /\ [][ReaderNext]_vars

\* Dispatch of both streams: the reader loop of a decoder session and the
\* frames of a spectrum session with its connections.
DispatchNext ==
    \/ ReadLine
    \/ Invoke
    \/ ReadEOF
    \/ Broadcast
    \/ \E s \in Sockets : WsConnect(s)
    \/ \E s \in Sockets : WsSend(s)
    \/ \E s \in Sockets : WsDisconnect(s)

\* One device, one session: a behaviour follows the lines of a decoder
\* session or the frames of a spectrum session.
DispatchInit ==
    /\ ManagersInit
    /\ \/ rd = RdStarted /\ hub = HubIdle
       \/ rd = RdIdle /\ hub = HubLive
    /\ strm = NoStream /\ bc = BcIdle /\ conn = ConnIdle /\ eng = EngIdle

DispatchSpec == DispatchInit /\ [][DispatchNext]_vars

----------------------------------------------------------------------------
\* Device exclusivity

Modes == {"rtl", "audio", "spec"}

IsRunning(m) ==
    CASE m = "rtl"   -> RtlIsRunning
      [] m = "audio" -> AudioIsRunning
      [] m = "spec"  -> SpecIsRunning

\* The live processes a manager has spawned.
LiveProcs(m) == {p \in Pids : procOwner[p] = m /\ Alive(p)}

\* The reader tasks of a manager that have not finished.
LiveTasks(m) == {t \in Pids : procOwner[t] = m /\ taskSt[t] \in {"running", "cancelling"}}

\* The reader tasks of a manager that can still receive output of a process
\* and dispatch it.
Dispatching(m) ==
    {t \in LiveTasks(m) : procSt[IF m = "spec" THEN taskSrc[t] ELSE t] # "exited"}

\* C1: in every reachable state at most one of the decode, audio and spectrum
\* sessions reports is_running.
C1_DeviceExclusivity == Cardinality({m \in Modes : IsRunning(m)}) <= 1

\* The step leaves every manager, process, task and suspended handler alone.
NothingChanged ==
    UNCHANGED <<procSt, procOwner, taskSt, taskSrc, rtl, audio, lock, spec, calls>>

\* C2: a start request for one mode that arrives while a different mode is
\* running is answered with Conflict and changes no state.
C2_StartRejectedWhileOtherActive ==
    [][ /\ (ev'.a = "start_rtl433" /\ (AudioIsRunning \/ SpecIsRunning))
            => (ev'.res = "conflict" /\ NothingChanged)
        /\ (ev'.a = "start_audio" /\ (RtlIsRunning \/ SpecIsRunning))
            => (ev'.res = "conflict" /\ NothingChanged)
        /\ (ev'.a = "start_spectrum" /\ (RtlIsRunning \/ AudioIsRunning))
            => (ev'.res = "conflict" /\ NothingChanged) ]_vars

\* C3: however start, stop and restart requests interleave, a manager never
\* has more than one live spawned process nor more than one reader task
\* attached to a live process.
C3_OneProcessPerManager ==
    \A m \in Modes : Cardinality(LiveProcs(m)) <= 1 /\ Cardinality(Dispatching(m)) <= 1

----------------------------------------------------------------------------
\* Retuning

CarriedFields == {"sample_rate", "output_rate", "gain", "squelch", "ppm"}

\* C4: a tune request on an active audio session stops the running process
\* and starts a new one in the same call, and the session is then active
\* under the requested configuration: the modulation is the old one when none
\* was given and the five other fields are those of the old configuration.
C4_TuneRestartsSession ==
    [][ (ev'.a = "tune" /\ AudioIsRunning /\ audio.config # NoCfg /\ ~lock) =>
          \/ ev'.res = "error"
          \/ /\ procSt'[audio.process] = "exited"
             /\ audio'.process \notin {0, audio.process}
             /\ procSt'[audio'.process] = "alive"
             /\ \E c \in BagToSet(calls') : c.op = "tune" /\ audio'.config = c.cfg
             /\ audio'.config.modulation \in ModNames
             /\ \A f \in CarriedFields : audio'.config[f] = audio.config[f] ]_vars

----------------------------------------------------------------------------
\* Stopping

RtlStopReturns  == {"rtl.stop:ok", "rtl.stop:raise"}
SpecStopReturns == {"spec.stop:ok", "spec.stop:early", "spec.stop:kill", "spec.stop:raise"}

\* The managers as stop() is meant to leave them.
RtlIdle   == ~RtlIsRunning /\ rtl.process = 0 /\ rtl.task = 0
SpecIdle  == ~SpecIsRunning /\ spec.process = 0 /\ spec.task = 0
AudioIdle == ~AudioIsRunning /\ audio.process = 0

\* C5: whenever stop() of a manager returns, it returns without raising and
\* the manager reports not running and holds no process handle and no task.
C5_StopEndsIdle ==
    [][ /\ ev'.ret \in RtlStopReturns  => (ev'.ret # "rtl.stop:raise" /\ RtlIdle')
        /\ ev'.ret \in SpecStopReturns => (ev'.ret # "spec.stop:raise" /\ SpecIdle')
        /\ ev'.ret = "audio.stop:ok"   => AudioIdle' ]_vars

\* A stop() of the manager is suspended at one of its awaits.
RtlStopping  == \E c \in InFlight : c.pc \in {"rtl_stop_task", "rtl_stop_wait", "rtl_stop_kill_wait"}
SpecStopping == \E c \in InFlight : c.pc \in {"spec_stop_task", "spec_stop_wait"}

\* C6: a stop() that returns while the session is Idle, or while another
\* stop() of the same session is still in progress, returns without error and
\* leaves the manager as a single stop() leaves it.
C6_StopIdempotent ==
    [][ /\ (ev'.ret \in RtlStopReturns /\ (~RtlIsRunning \/ RtlStopping'))
            => (ev'.ret # "rtl.stop:raise" /\ RtlIdle')
        /\ (ev'.ret \in SpecStopReturns /\ (~SpecIsRunning \/ SpecStopping'))
            => (ev'.ret # "spec.stop:raise" /\ SpecIdle') ]_vars

\* The process has exited, or SIGKILL has been sent to it.
Confirmed(p) == procSt[p] \in {"exited", "killed"}

\* C7: when stop() of the decoder or of the spectrum analyzer returns, no
\* reader task of that manager can still dispatch and every process the
\* manager spawned has exited or been killed.
C7_StopCompletesBoth ==
    [][ /\ ev'.ret = "rtl.stop:ok"
            => (Dispatching("rtl")' = {} /\ \A p \in Pids : procOwner'[p] = "rtl" => Confirmed(p)')
        /\ ev'.ret \in SpecStopReturns \ {"spec.stop:raise"}
            => (Dispatching("spec")' = {} /\ \A p \in Pids : procOwner'[p] = "spec" => Confirmed(p)') ]_vars

\* C8: a stop() whose graceful wait timed out returns success only once the
\* process it killed has exited.
C8_KillThenWait ==
    [][ /\ ev'.ret = "rtl.stop:kill" => ev'.res = "none"
        /\ \A c \in InFlight :
              (c.pc = "rtl_stop_kill_wait" /\ ev'.ret \in RtlStopReturns /\ c \notin BagToSet(calls'))
                  => (ev'.ret = "rtl.stop:ok" /\ procSt'[c.p] = "exited")
        /\ \A c \in InFlight :
              (c.pc = "spec_stop_wait" /\ procSt[c.p] # "exited"
                   /\ ev'.ret \in SpecStopReturns /\ c \notin BagToSet(calls'))
                  => (ev'.ret # "spec.stop:raise" /\ procSt'[c.p] = "exited") ]_vars

\* C9: whenever no request is in progress, a manager that reports not running
\* has no spawned process that is still alive and has not been killed.
C9_ProcessReleased ==
    calls = EmptyBag =>
        \A m \in Modes : ~IsRunning(m) => \A p \in LiveProcs(m) : procSt[p] = "killed"

\* C10: a start request for the mode that is already active returns success
\* and changes nothing: no process is spawned or terminated.
C10_StartActiveIsNoOp ==
    [][ /\ (ev'.a = "start_rtl433" /\ RtlIsRunning)
            => (ev'.res \in {"ok", "already"} /\ NothingChanged)
        /\ (ev'.a = "start_audio" /\ AudioIsRunning /\ ~RtlIsRunning)
            => (ev'.res \in {"ok", "already"} /\ NothingChanged)
        /\ (ev'.a = "start_spectrum" /\ SpecIsRunning /\ ~RtlIsRunning)
            => (ev'.res \in {"ok", "already"} /\ NothingChanged) ]_vars

\* C10 (as the routes behave): a start request for the mode that is already
\* active changes nothing; the decoder route answers already_running, the
\* audio and spectrum routes reject the request with Conflict.
C10_StartActiveChangesNothing ==
    [][ /\ (ev'.a = "start_rtl433" /\ RtlIsRunning)
            => (ev'.res = "already" /\ NothingChanged)
        /\ (ev'.a = "start_audio" /\ AudioIsRunning)
            => (ev'.res = "conflict" /\ NothingChanged)
        /\ (ev'.a = "start_spectrum" /\ SpecIsRunning)
            => (ev'.res = "conflict" /\ NothingChanged) ]_vars

\* A start request for the audio session has just been rejected while the
\* audio session was the only active one.
C10_Witness ==
    /\ ev.a = "start_audio" /\ ev.res = "conflict"
    /\ AudioIsRunning /\ ~RtlIsRunning /\ ~SpecIsRunning
    /\ calls = EmptyBag

----------------------------------------------------------------------------
\* Start-up failures

\* The process p is held right after a step that spawned it earlier and
\* found it alive.
Rechecked(p) == p # 0 /\ procSt[p] # "unborn" /\ procSt'[p] # "exited"

\* C11: a start call reports success only after the liveness of the process
\* it spawned has been checked again in a later step than the spawn; a process
\* found exited makes the call fail and the session is not left running.
C11_StartupRechecked ==
    [][ /\ ev'.ret = "rtl.start:true"   => Rechecked(rtl'.process)
        /\ ev'.ret = "audio.start:true" => Rechecked(audio'.process)
        /\ ev'.ret = "spec.start:true"  => Rechecked(spec'.process)
        /\ ev'.ret = "audio.start:exited" => ~AudioIsRunning' ]_vars

\* C12: after a start call has failed because the process exited within the
\* settling interval, the manager holds no process handle and no
\* configuration and reports not running.
C12_StartupFailureCleansUp ==
    [][ ev'.ret = "audio.start:exited" =>
          (ev'.res = "error" /\ audio' = ClearedAudio /\ ~AudioIsRunning' /\ ~lock') ]_vars

\* A start call has just failed on an exited process, and the process it had
\* spawned is the only one there is.
C12_Witness ==
    /\ ev.ret = "audio.start:exited"
    /\ \E p \in Pids : procOwner[p] = "audio" /\ procSt[p] = "exited"
    /\ audio = ClearedAudio

SpawnFailures == {"rtl.start:false", "audio.start:notfound", "audio.start:raise", "spec.start:false"}

\* C13: a start call that fails because the executable is missing or cannot
\* be executed reports an error, spawns nothing, creates no task and leaves
\* the manager not running, with the process handle and the configuration it
\* had before the call or none.
C13_SpawnFailureStaysIdle ==
    [][ ev'.ret \in SpawnFailures =>
          /\ ev'.res = "error"
          /\ procSt' = procSt /\ taskSt' = taskSt
          /\ ev'.ret = "rtl.start:false" => (rtl' = rtl /\ ~RtlIsRunning')
          /\ ev'.ret = "spec.start:false" => (spec' = spec /\ ~SpecIsRunning')
          /\ ev'.ret \in {"audio.start:notfound", "audio.start:raise"}
                => (audio' \in {audio, ClearedAudio} /\ ~AudioIsRunning') ]_vars

\* A spectrum start has just failed at the spawn.
C13_Witness ==
    /\ ev.ret = "spec.start:false" /\ ev.res = "error"
    /\ ~SpecIsRunning /\ spec.process = 0 /\ spec.task = 0

----------------------------------------------------------------------------
\* Liveness and restart

\* The process a manager holds.
Handle(m) ==
    CASE m = "rtl"   -> rtl.process
      [] m = "audio" -> audio.process
      [] m = "spec"  -> spec.process

\* C14: for each manager, is_running is true exactly when the manager holds
\* a process that has not exited.
C14_LivenessDerived ==
    \A m \in Modes : IsRunning(m) <=> (Handle(m) # 0 /\ Alive(Handle(m)))

\* C15: restart() never raises, whatever state it is called in; no two
\* decoder processes are ever alive at once; and when restart() reports
\* success exactly one decoder process is alive, held by the manager, with
\* one reader task attached to it.
C15_RestartStopsThenStarts ==
    [][ /\ ev'.a = "restart" => ev'.res # "raised"
        /\ \A c \in InFlight :
              (c.op = "restart" /\ c \notin BagToSet(calls')) =>
                  /\ ev'.res # "raised"
                  /\ ev'.res = "ok" =>
                        /\ LiveProcs("rtl")' = {rtl'.process}
                        /\ Dispatching("rtl")' = {rtl'.task}
        /\ Cardinality(LiveProcs("rtl")') <= 1 ]_vars

----------------------------------------------------------------------------
\* Claims about the reader loop

\* A line has just been read.
LineRead == rd'.n = rd.n + 1

\* JSON objects whose time field, if any, is a string.
PlainObjects == {"object_time_iso", "object_time_text", "object_no_time"}

\* C16: a decoder line that is not valid JSON is dispatched to no callback
\* and does not end the reader loop; a valid line that follows it is still
\* delivered.  (The follower is taken from the plain objects; the payloads C18
\* is about are left to C18.)
C16_InvalidLineSkipped ==
    [][ LineRead =>
          /\ rd'.kind \notin ValidJson =>
                (rd'.st = "reading" /\ rd'.pc = "read" /\ rd'.calls = NoInvocations)
          /\ (rd.n > 0 /\ rd.kind \notin ValidJson /\ rd'.kind \in PlainObjects) =>
                rd'.pc = "dispatch" ]_vars

C18_OncePerParsedLine ==
    /\ \A cb \in Callbacks : rd.calls[cb] <= 1
    /\ (rd.n > 0 /\ rd.kind \in ValidJson /\ rd.pc = "read") =>
          \A cb \in Callbacks : rd.calls[cb] = 1

\* C19: a dispatched event carries the parsed time when its time field
\* parses and the current time when the field is absent or does not parse,
\* whatever the reason; a time field never keeps the event from being
\* dispatched.
C19_TimeFallback ==
    [][ LineRead =>
          /\ rd'.kind = "object_time_iso" =>
                (rd'.pc = "dispatch" /\ rd'.stamp = "parsed")
          /\ rd'.kind \in {"object_no_time", "object_time_text", "object_time_number"} =>
                (rd'.pc = "dispatch" /\ rd'.stamp = "now") ]_vars

\* C20: dispatch preserves the order of the stream.  Every callback of a
\* decoder session is called with events in the order of their lines, and
\* every connection of a spectrum session is sent frames in the order they
\* were emitted: frames may be missing, none comes twice or out of order.
C20_OrderPreserved ==
    [][ /\ \A cb \in Callbacks :
              (rd'.calls[cb] > rd.calls[cb] \/ rd'.got[cb] # rd.got[cb]) =>
                  (rd'.got[cb] > rd.got[cb] /\ rd'.got[cb] = rd.n)
        /\ \A s \in Sockets :
              hub'.sent[s] # hub.sent[s] =>
                  (hub'.sent[s] > hub.sent[s] /\ hub'.sent[s] <= hub.frame) ]_vars

\* A connection has been sent a frame, and the next one waiting in its queue
\* is not the one emitted next: the queue was full and frames were dropped.
C20_Witness ==
    \E s \in Sockets :
        /\ hub.sent[s] > 0 /\ hub.queue[s] # << >>
        /\ Head(hub.queue[s]) > hub.sent[s] + 1

\* C21: the decoder's reader loop ends when the stream of its process
\* closes, when its task is cancelled and when its session is stopped; after
\* a stop request it does not stay waiting for more output.
C21_ReaderTerminates ==
    \A t \in Pids :
        /\ (procOwner[t] = "rtl" /\ taskSt[t] = "running" /\ procSt[t] = "exited")
               ~> (taskSt[t] = "done")
        /\ (procOwner[t] = "rtl" /\ taskSt[t] = "cancelling") ~> (taskSt[t] = "done")
        /\ (rtl.task = t /\ ~rtl.running /\ taskSt[t] \in {"running", "cancelling"})
               ~> (taskSt[t] = "done")

\* stop() has returned after cancelling the reader task of a live process.
C21_Witness ==
    /\ ev.ret = "rtl.stop:ok"
    /\ \E t \in Pids : procOwner[t] = "rtl" /\ taskSt[t] = "done" /\ procSt[t] = "exited"
    /\ rtl.task = 0 /\ ~rtl.running

----------------------------------------------------------------------------
\* Claims about the audio chunk sequence

\* C22: the chunk sequence ends when a read returns no bytes and when a read
\* raises; the consumer sees the end of the sequence and no exception.
C22_ReadFailureEndsSequence ==
    /\ strm.r \in {"eof", "error"} => strm.st = "ended"
    /\ ~strm.raised

\* A read has raised and the sequence has ended.
C22_Witness == strm.r = "error" /\ strm.st = "ended" /\ ~strm.raised

\* C23: a chunk sequence is bounded by the session in which it was obtained:
\* it never reads from the process of a later session, and once its session
\* has been stopped its next step is its end.
C23_BoundedBySession ==
    [][ (strm.st \in {"open", "yielded"} /\ strm'.st = "reading") =>
            (strm'.src = strm.born /\ Alive(strm.born)) ]_vars

----------------------------------------------------------------------------
\* Claims about the spectrum subscribers

\* The engine has emitted a frame in this step.
Emitted == hub'.frame = hub.frame + 1

\* C24: the queue of a connection never holds more than 10 frames; putting a
\* frame into a full queue takes out exactly the oldest one and adds the new
\* one at the end, so the size stays 10 and the newest frame is always there.
C24_DropOldest ==
    [][ \A s \in Sockets :
          LET q == hub.queue[s]
              n == hub'.queue[s]
          IN  /\ Len(n) <= QueueSize
              /\ (Emitted /\ s \in Registered) =>
                    /\ n # << >> /\ n[Len(n)] = hub'.frame
                    /\ Len(q) < QueueSize => n = Append(q, hub'.frame)
                    /\ Len(q) = QueueSize => n = Append(Tail(q), hub'.frame) ]_vars

\* Twelve frames were emitted to a connection that has sent none: the queue
\* holds the last ten.
C24_Witness ==
    \E s \in Sockets :
        /\ hub.frame = QueueSize + 2 /\ hub.sent[s] = 0
        /\ Len(hub.queue[s]) = QueueSize
        /\ Head(hub.queue[s]) = 3 /\ hub.queue[s][QueueSize] = QueueSize + 2

\* The awaited callback has raised in this step.
Raised == bc.st = "calling" /\ (bc'.st = "failed" \/ bc.cur \notin Members(bc'.clients))

\* C25: when the callback of a subscriber raises during a broadcast, that
\* subscriber is removed and not called again, every other subscriber still
\* gets the frame, and the engine loop keeps running.
C25_RaisingSubscriberRemoved ==
    [][ /\ Raised =>
              /\ bc'.st # "failed"
              /\ bc.cur \notin Members(bc'.clients)
              /\ bc'.snap \o (IF bc'.cur = 0 THEN << >> ELSE <<bc'.cur>>) # << >> =>
                     bc'.st = "calling"
              /\ \A s \in Members(bc.snap) : s = bc'.cur \/ s \in Members(bc'.snap)
        /\ bc'.st = "calling" => bc'.cur \notin bc.dead
        /\ (bc.st = "calling" /\ bc'.st = "idle") => \A s \in bc'.stayed : bc'.got[s] = 1 ]_vars

\* C26: adding and removing subscribers while a broadcast is in flight does
\* not corrupt it: the broadcast raises nothing, every subscriber registered
\* for the whole broadcast gets the frame exactly once, and the engine loop
\* goes on.
C26_BroadcastSurvivesChanges ==
    [][ /\ bc'.st # "failed"
        /\ \A s \in Subs : bc'.got[s] <= 1
        /\ (bc.st = "calling" /\ bc'.st = "idle") => \A s \in bc'.stayed : bc'.got[s] = 1 ]_vars

----------------------------------------------------------------------------
\* Claims about the spectrum engine and its configuration

\* A full read has been processed in this step.
FullRead == eng.st = "running" /\ eng' # eng /\ eng'.last \in {"vector", "frame"}
            /\ eng'.fft_size = eng.fft_size /\ eng'.averaging = eng.averaging
            /\ eng'.req = eng.req /\ eng'.cfg = eng.cfg /\ eng'.need = eng.need

\* C27: with a constant averaging count N >= 1 and full reads the engine
\* emits exactly one frame for every N power vectors, and the accumulator is
\* empty right after each emission.
C27_OneFramePerN ==
    [][ /\ (eng.steady /\ eng.st = "running") => eng.acc < eng.averaging
        /\ (FullRead /\ eng.steady) =>
              /\ eng'.last = "frame" <=> eng.acc + 1 = eng.averaging
              /\ eng'.last = "frame" => eng'.acc = 0
              /\ eng'.last = "vector" => eng'.acc = eng.acc + 1 ]_vars

\* The third of three vectors has just been turned into a frame.
C27_Witness ==
    /\ eng.st = "running" /\ eng.steady /\ eng.averaging = 3
    /\ eng.last = "frame" /\ eng.acc = 0

\* n is a power of two.
IsPowerOfTwo(n) == \E k \in 0..16 : n = Pow2(k)

\* C28: after any sequence of configure requests with any integer FFT size
\* the configured FFT size is a power of two in [256, 4096].
C28_FftSizeInRange ==
    /\ IsPowerOfTwo(eng.fft_size)
    /\ FftMin <= eng.fft_size /\ eng.fft_size <= FftMax

\* A request above the range has been answered and the size is what it was.
C28_Witness == eng.req = FftMax + 1 /\ eng.cfg = "rejected" /\ eng.fft_size = 2048

\* C29: for a request n in [256, 4096] configure sets the FFT size to the
\* largest power of two that is at most n; a power of two is kept as it is.
C29_RoundedDown ==
    (eng.cfg = "applied" /\ eng.req # 0) =>
        /\ IsPowerOfTwo(eng.fft_size)
        /\ eng.fft_size <= eng.req /\ eng.req < 2 * eng.fft_size
        /\ IsPowerOfTwo(eng.req) => eng.fft_size = eng.req

\* A request of 1000 has configured 512.
C29_Witness == eng.req = 1000 /\ eng.cfg = "applied" /\ eng.fft_size = 512

\* C30: a read of fewer than fftSize x 2 bytes, but more than none, is dropped
\* whole: nothing is added to the accumulator, its bytes are not combined with
\* a later read, and the loop goes on with the next read.
C30_PartialReadDropped ==
    [][ /\ eng'.held = 0
        /\ (eng.st = "running" /\ eng'.last = "partial" /\ eng' # eng) =>
              (eng'.st = "running" /\ eng'.acc = eng.acc)
        /\ (FullRead /\ eng.last = "partial") => eng'.acc \in {eng.acc + 1, 0} ]_vars

\* A partial read came between two vectors of one frame.
C30_Witness == eng.st = "running" /\ eng.last = "partial" /\ eng.acc = 1

----------------------------------------------------------------------------
\* The engine's state machine

\* An engine task of the spectrum manager finishes in this step.
EngineTaskEnds ==
    \E t \in Pids : procOwner[t] = "spec" /\ taskSt[t] # "done" /\ taskSt'[t] = "done"

\* C31: a successful spawn leaves the engine Running; a stop call leaves it
\* Idle at once; the exit of the process it holds leads to Idle with no
\* further call; the end of the engine loop, on an error or otherwise, leaves
\* it Idle; and a start request made while it is Idle and the decoder is not
\* running is accepted.
C31_EngineStateMachine ==
    /\ [][ /\ ev'.ret = "spec.start:true" => spec'.running
           /\ ev'.a = "stop_spectrum" => ~spec'.running
           /\ EngineTaskEnds => ~spec'.running
           /\ (ev'.a = "start_spectrum" /\ ~spec.running /\ ~RtlIsRunning)
                 => ev'.res # "conflict" ]_vars
    /\ \A p \in Pids :
          (spec.running /\ spec.process = p /\ procSt[p] = "exited") ~> ~spec.running

\* The engine is Running for the second time, after its first process
\* exited and its loop ended with no stop call.
C31_Witness ==
    /\ spec.running /\ spec.process = 2 /\ taskSt[2] = "running"
    /\ procSt[1] = "exited" /\ taskSt[1] = "done" /\ calls = EmptyBag

----------------------------------------------------------------------------
\* Configuration changes while the engine runs

\* One read of the running loop returns in this step (no configure request).
LoopRead ==
    /\ eng.st = "running" /\ eng' # eng
    /\ eng'.fft_size = eng.fft_size /\ eng'.averaging = eng.averaging
    /\ eng'.req = eng.req /\ eng'.cfg = eng.cfg /\ eng'.need = eng.need

\* C32: an FFT size or averaging set by configure while the engine is
\* Running is what the loop works with from then on, without a restart:
\* every read asks for twice the configured FFT size in bytes, and a full
\* read completes a frame exactly when the accumulator then holds the
\* configured number of vectors.
C32_ConfigureTakesEffectLive ==
    [][ /\ LoopRead => eng.need = 2 * eng.fft_size
        /\ FullRead => (eng'.last = "frame" <=> eng.acc + 1 >= eng.averaging) ]_vars

\* C33: every emitted frame comes from one configuration: the FFT size of
\* its frequency axis is the FFT size of the power vectors averaged into it,
\* and its frequencies and power sequences have the same length, whenever
\* configure requests arrive.
C33_FrameFromOneConfiguration ==
    [][ (FullRead /\ eng'.last = "frame") =>
          /\ eng.fft_size = eng.need \div 2
          /\ FreqPoints(eng) = PowerPoints(eng) ]_vars

----------------------------------------------------------------------------
\* Numbers of a frame

\* C34: the frequencies and the power sequence of every emitted frame hold
\* at most 256 points each, and exactly 256 when the configured FFT size is a
\* power of two in [256, 4096].
C34_DownsampledTo256 ==
    [][ (FullRead /\ eng'.last = "frame") =>
          /\ FreqPoints(eng) <= MaxPoints /\ PowerPoints(eng) <= MaxPoints
          /\ (IsPowerOfTwo(eng.fft_size) /\ eng.fft_size \in FftMin..FftMax) =>
                (FreqPoints(eng) = MaxPoints /\ PowerPoints(eng) = MaxPoints) ]_vars

\* C35: after any sequence of configure calls with any integer averaging,
\* zero and negative values included, the configured averaging count is at
\* least 1.
C35_AveragingAtLeastOne == eng.averaging >= 1

\* A configure call with a negative averaging has been applied.
C35_Witness == eng.req < 0 /\ eng.cfg = "applied" /\ eng.averaging = 1

\* The points of a never go down.
NonDecreasing(a) == \A k \in 1..(Len(a) - 1) : a[k] <= a[k + 1]

\* C36: the frequency axis of every emitted frame never goes down, before and
\* after downsampling, and its first point lies below the center frequency
\* by the largest offset of the axis.
C36_AxisMonotone ==
    eng.last = "frame" =>
        /\ NonDecreasing(eng.freq) /\ NonDecreasing(eng.frequencies)
        /\ eng.freq[1] < eng.center_freq * eng.fft_size
        /\ eng.frequencies[1] = eng.freq[1]
        /\ \A k \in 1..Len(eng.freq) : eng.freq[1] <= eng.freq[k]

----------------------------------------------------------------------------
\* The audio manager's lock

\* The awaits at which a call of AudioManager.start or stop can be suspended.
AudioAwaits == {"audio_start_lock", "audio_start_stop", "audio_settle", "audio_stop_lock"}

\* A call of the audio manager is suspended at the given await.
SuspendedAt(pc) == \E c \in InFlight : c.pc = pc

\* C37: every call of AudioManager.start and AudioManager.stop returns: a
\* call suspended at any of its awaits, the lock included, leaves it again,
\* also a start made while an audio process is running.
C37_AudioCallsReturn ==
    \A pc \in AudioAwaits : SuspendedAt(pc) ~> ~SuspendedAt(pc)

----------------------------------------------------------------------------
\* Broadcasts of the readings channel

\* C38: when a broadcast returns, every connection that was in
\* active_connections from its beginning to its end has been sent the message
\* exactly once, whatever connected, went away or failed meanwhile, and no
\* connection whose send failed is in active_connections.
C38_BroadcastDelivers ==
    conn.st = "done" =>
        /\ \A w \in conn.whole : conn.tries[w] = 1
        /\ Listed(conn.failed) \cap Listed(conn.active) = {}

\* A subscriber's callback is called in this step.
Invoked == bc'.st = "calling" /\ (bc.st # "calling" \/ bc'.snap # bc.snap)

----------------------------------------------------------------------------
\* The audio manager's fields

\* C40: between calls and at every await of AudioManager.start and stop the
\* manager has a configuration exactly when it has a process handle.
C40_ConfigIffProcess == (audio.config # NoCfg) <=> (audio.process # 0)

\* A start has spawned a process and waits for it to settle, both fields set.
C40_Witness ==
    /\ \E c \in InFlight : c.pc = "audio_settle"
    /\ audio.process # 0 /\ audio.config # NoCfg

====
